---- MODULE Spec2Model ----
\* Activity memory store of ai-gym-memory-system: MemoryService (record list +
\* embedding list), the EmbeddingService text projection, and the two route
\* modules that each keep their own lazily built service singletons.
EXTENDS Integers, Sequences, FiniteSets, TLC

\* ---------------------------------------------------------------- bounds
\* records one MemoryService instance holds at most
MaxStore == 3

\* ---------------------------------------------------------------- values
\* Python None / JSON null, and the exception marker of a call's outcome
None == "None"

\* Dictionaries are functions from their keys; d.get(k, default)
Get(d, k, default) == IF k \in DOMAIN d THEN d[k] ELSE default

\* Python truthiness of a str-or-None field value
Truthy(v) == v # None /\ v # ""

\* activity_data dictionaries handed to store_activity.  The "id" key models a
\* caller whose dictionary carries a key of the same name as the store's
\* metadata (id 0 stands for a caller-chosen string; uuid4 values are 1, 2, ...).
ActivityData ==
  { [exercise |-> "squat", date |-> "2026-01-14"],
    [exercise |-> "Squat", date |-> "2026-01-15"],
    [exercise |-> "run"],
    [id |-> 0, exercise |-> "squat", date |-> "2026-01-14"] }

\* free-text search queries
Queries == {"legs", "cardio"}
\* top_k arguments of search_similar (the service method itself accepts any int)
TopKs == {-1, 0, 1, 2, 5}
\* similarity thresholds, in hundredths (0.5 is the method's default)
Thresholds == {50, 70}

\* ------------------------------------------------- embedding_service.py
\* create_activity_text: the labelled fragments of the populated fields, in the
\* fixed field order; the " | ".join is kept as the sequence of fragments.
create_activity_text(activity) ==
  LET part(cond, frag) == IF cond THEN <<frag>> ELSE <<>>
      g(k) == Get(activity, k, None)
  IN  part(Truthy(g("exercise")), <<"Exercise: ", g("exercise")>>)
      \o part(Truthy(g("sets")), <<g("sets"), " sets">>)
      \o part(Truthy(g("reps")), <<g("reps"), " reps">>)
      \o part(Truthy(g("weight")) /\ Truthy(g("unit")), <<g("weight"), " ", g("unit")>>)
      \o part(Truthy(g("duration")), <<g("duration"), " minutes">>)
      \o part(Truthy(g("notes")), <<"Notes: ", g("notes")>>)
      \o part(Truthy(g("date")), <<"Date: ", g("date")>>)

\* SentenceTransformer.encode: an external, deterministic map from text to a
\* fixed-dimension vector.  Two dimensions with integer norms (1 or 5) keep
\* every cosine an exact number of hundredths.
encode(text) ==
  CASE text = <<<<"Exercise: ", "squat">>, <<"Date: ", "2026-01-14">>>> -> <<3, 4>>
    [] text = <<<<"Exercise: ", "Squat">>, <<"Date: ", "2026-01-15">>>> -> <<4, 3>>
    [] text = <<<<"Exercise: ", "run">>>> -> <<0, 1>>
    [] text = <<<<"legs">>>> -> <<1, 0>>
    [] text = <<<<"cardio">>>> -> <<3, 4>>
    [] OTHER -> <<5, 0>>

\* generate_embedding(activity): [raised, ret]; ok = FALSE is model.encode raising
generate_embedding(activity, ok) ==
  IF ok THEN [raised |-> FALSE, ret |-> encode(create_activity_text(activity))]
        ELSE [raised |-> TRUE, ret |-> None]

\* generate_query_embedding(query): the query string is a text of one fragment
generate_query_embedding(query, ok) ==
  IF ok THEN [raised |-> FALSE, ret |-> encode(<<<<query>>>>)]
        ELSE [raised |-> TRUE, ret |-> None]

\* ---------------------------------------------------- memory_service.py
VARIABLES
  activities,   \* self.activities of the MemoryService under test
  embeddings,   \* self.embeddings of the same instance
  next_uuid,    \* the value the next uuid4 draw yields (fresh values 1, 2, ...)
  now,          \* datetime.now() at the next call
  returned,     \* ids that store_activity has returned so far
  last,         \* the most recent call: operation, arguments, outcome
  services,     \* the module-level singletons of each routes module
  logged,       \* the records log_activity has stored through a route
  pc,           \* per thread: the store_activity statement it executes next
  local         \* per thread: the locals activity and embedding of its call

vars == <<activities, embeddings, next_uuid, now, returned, last, services, logged,
          pc, local>>

\* the instance as one value
Self == [activities |-> activities, embeddings |-> embeddings]

\* {"id": activity_id, "created_at": ..., **activity_data}: later keys win
NewActivity(activity_id, created_at, activity_data) ==
  [k \in {"id", "created_at"} \cup DOMAIN activity_data |->
     IF k \in DOMAIN activity_data THEN activity_data[k]
     ELSE IF k = "id" THEN activity_id ELSE created_at]

\* store_activity with the two appends placed before the embedding call: a
\* failing embedder then leaves a record without a vector
store_activity_append_first(self, activity_data, activity_id, t, embed_ok) ==
  LET activity == NewActivity(activity_id, t, activity_data)
      embedding == generate_embedding(activity, embed_ok)
  IN  IF embedding.raised
      THEN [activities |-> Append(self.activities, activity),
            embeddings |-> self.embeddings, raised |-> TRUE, ret |-> None]
      ELSE [activities |-> Append(self.activities, activity),
            embeddings |-> Append(self.embeddings, embedding.ret),
            raised |-> FALSE, ret |-> activity_id]

\* store_activity that masks an embedder failure by storing a zero vector
store_activity_zero_vector(self, activity_data, activity_id, t, embed_ok) ==
  LET activity == NewActivity(activity_id, t, activity_data)
      embedding == generate_embedding(activity, embed_ok)
  IN  [activities |-> Append(self.activities, activity),
       embeddings |-> Append(self.embeddings,
                             IF embedding.raised THEN <<0, 0>> ELSE embedding.ret),
       raised |-> FALSE, ret |-> activity_id]

\* store_activity(activity_data) on instance self, with the uuid4 drawn, the
\* clock reading and the embedder's outcome: the instance afterwards, whether
\* the call raised, and the value returned.
store_activity(self, activity_data, activity_id, t, embed_ok) ==
  LET activity == NewActivity(activity_id, t, activity_data)
      embedding == generate_embedding(activity, embed_ok)
  IN  IF embedding.raised
      THEN [activities |-> self.activities, embeddings |-> self.embeddings,
            raised |-> TRUE, ret |-> None]
      ELSE [activities |-> Append(self.activities, activity),
            embeddings |-> Append(self.embeddings, embedding.ret),
            raised |-> FALSE, ret |-> activity_id]

\* np.dot and np.linalg.norm on the two-dimensional integer vectors
Dot(a, b) == a[1] * b[1] + a[2] * b[2]
Norm(a) == CHOOSE n \in 0..Dot(a, a) : n * n = Dot(a, a)

\* _cosine_similarity, in hundredths
cosine_similarity(vec1, vec2) ==
  LET dot_product == Dot(vec1, vec2)
      norm_product == Norm(vec1) * Norm(vec2)
  IN  IF norm_product = 0 THEN 0 ELSE (100 * dot_product) \div norm_product

\* a descending sort that is not stable: equal keys come out in reverse list order
RECURSIVE SortedDescUnstable(_, _)
SortedDescUnstable(keys, n) ==
  IF n = 0 THEN <<>>
  ELSE LET s == SortedDescUnstable(keys, n - 1)
           p == Cardinality({j \in 1..(n - 1) : keys[s[j]] > keys[n]})
       IN  SubSeq(s, 1, p) \o <<n>> \o SubSeq(s, p + 1, n - 1)

\* list.sort(key=..., reverse=True): the positions 1..n of a list ordered by key
\* descending; the sort is stable, so equal keys keep their list order.
RECURSIVE SortedDesc(_, _)
SortedDesc(keys, n) ==
  IF n = 0 THEN <<>>
  ELSE LET s == SortedDesc(keys, n - 1)
           p == Cardinality({j \in 1..(n - 1) : keys[s[j]] >= keys[n]})
       IN  SubSeq(s, 1, p) \o <<n>> \o SubSeq(s, p + 1, n - 1)

\* Python's seq[:k]
SliceTo(seq, k) ==
  IF k >= 0 THEN SubSeq(seq, 1, IF k < Len(seq) THEN k ELSE Len(seq))
  ELSE SubSeq(seq, 1, IF Len(seq) + k > 0 THEN Len(seq) + k ELSE 0)

\* elements of a sequence
Elems(seq) == {seq[i] : i \in 1..Len(seq)}

\* seq filtered by a set of wanted elements, order kept
RECURSIVE Keep(_, _)
Keep(seq, S) ==
  IF seq = <<>> THEN <<>>
  ELSE (IF Head(seq) \in S THEN <<Head(seq)>> ELSE <<>>) \o Keep(Tail(seq), S)

\* activity.copy() with activity["similarity_score"] set
WithScore(activity, score) ==
  [k \in DOMAIN activity \cup {"similarity_score"} |->
     IF k = "similarity_score" THEN score ELSE activity[k]]

\* the records of seq at the positions in idxs replaced by f[position]
Replaced(seq, idxs, f) ==
  [i \in 1..Len(seq) |-> IF i \in idxs THEN f[i] ELSE seq[i]]

\* search_similar that sets similarity_score on the stored dictionary itself
\* instead of on a copy of it
search_similar_no_copy(self, query, top_k, similarity_threshold, embed_ok) ==
  IF self.activities = <<>>
  THEN [raised |-> FALSE, ret |-> <<>>, idxs |-> <<>>, activities |-> self.activities]
  ELSE
    LET query_embedding == generate_query_embedding(query, embed_ok)
    IN  IF query_embedding.raised
        THEN [raised |-> TRUE, ret |-> None, idxs |-> <<>>, activities |-> self.activities]
        ELSE
          LET n == Len(self.embeddings)
              sims == [idx \in 1..n |->
                         cosine_similarity(query_embedding.ret, self.embeddings[idx])]
              ranked == SortedDesc(sims, n)
              window == SliceTo(ranked, top_k)
              hits == Keep(window, {idx \in 1..n : sims[idx] >= similarity_threshold})
              scored == [idx \in 1..Len(self.activities) |->
                           WithScore(self.activities[idx], sims[idx])]
          IN  IF \E i \in 1..Len(hits) : hits[i] > Len(self.activities)
              THEN [raised |-> TRUE, ret |-> None, idxs |-> <<>>,
                    activities |-> self.activities]
              ELSE [raised |-> FALSE,
                    ret |-> [i \in 1..Len(hits) |-> scored[hits[i]]],
                    idxs |-> hits,
                    activities |-> Replaced(self.activities, Elems(hits), scored)]

\* search_similar(query, top_k, similarity_threshold): idxs are the positions in
\* self.activities of the returned copies, in result order; activities is
\* self.activities after the call (line 109 copies each hit before line 110
\* writes similarity_score into it, so the stored dictionaries are as before).
search_similar(self, query, top_k, similarity_threshold, embed_ok) ==
  IF self.activities = <<>>
  THEN [raised |-> FALSE, ret |-> <<>>, idxs |-> <<>>, activities |-> self.activities]
  ELSE
    LET query_embedding == generate_query_embedding(query, embed_ok)
    IN  IF query_embedding.raised
        THEN [raised |-> TRUE, ret |-> None, idxs |-> <<>>, activities |-> self.activities]
        ELSE
          LET n == Len(self.embeddings)
              sims == [idx \in 1..n |->
                         cosine_similarity(query_embedding.ret, self.embeddings[idx])]
              ranked == SortedDesc(sims, n)
              window == SliceTo(ranked, top_k)
              hits == Keep(window, {idx \in 1..n : sims[idx] >= similarity_threshold})
          IN  IF \E i \in 1..Len(hits) : hits[i] > Len(self.activities)
              THEN [raised |-> TRUE, ret |-> None, idxs |-> <<>>,
                    activities |-> self.activities]
              ELSE [raised |-> FALSE,
                    ret |-> [i \in 1..Len(hits) |->
                               WithScore(self.activities[hits[i]], sims[hits[i]])],
                    idxs |-> hits,
                    activities |-> self.activities]

\* get_all_activities(limit): sorted by created_at descending, then [:limit]
get_all_activities(self, limit) ==
  LET n == Len(self.activities)
      keys == [i \in 1..n |-> Get(self.activities[i], "created_at", "")]
      order == SliceTo(SortedDesc(keys, n), limit)
  IN  [i \in 1..Len(order) |-> self.activities[order[i]]]

\* str.lower() on the exercise names in use
Lower(str) == IF str = "Squat" THEN "squat" ELSE str

\* Python compares date strings lexicographically: the strings in use, ascending
DateStrings == <<"", "2026-01-10", "2026-01-14", "2026-01-15", "2026-01-20">>
StrRank(str) == CHOOSE i \in 1..Len(DateStrings) : DateStrings[i] = str

\* the records at the given positions
Pick(seq, order) == [i \in 1..Len(order) |-> seq[order[i]]]

\* results.sort(key=lambda x: x.get("date", ""), reverse=True): comparing a None
\* key with any other key is a TypeError, and a list of two or more is compared
SortByDate(results) ==
  LET n == Len(results)
      key(i) == Get(results[i], "date", "")
  IN  IF n >= 2 /\ \E i \in 1..n : key(i) = None
      THEN [raised |-> TRUE, ret |-> None]
      ELSE [raised |-> FALSE,
            ret |-> Pick(results, SortedDesc([i \in 1..n |-> StrRank(key(i))], n))]

\* a list comprehension / filtering loop: the records of seq at the positions
\* that pass the test, in list order
Filtered(seq, passing) == Pick(seq, Keep([i \in 1..Len(seq) |-> i], passing))

\* search_by_date_range that skips a record dated exactly end_date (>= in place
\* of > on line 147): the upper bound becomes exclusive
search_by_date_range_exclusive_end(self, start_date, end_date) ==
  LET in_range(activity) ==
        LET activity_date == Get(activity, "date", None)
        IN  /\ Truthy(activity_date)
            /\ ~(Truthy(start_date) /\ StrRank(activity_date) < StrRank(start_date))
            /\ ~(Truthy(end_date) /\ StrRank(activity_date) >= StrRank(end_date))
  IN  SortByDate(Filtered(self.activities,
                          {i \in 1..Len(self.activities) : in_range(self.activities[i])}))

\* search_by_date_range(start_date, end_date)
search_by_date_range(self, start_date, end_date) ==
  LET in_range(activity) ==
        LET activity_date == Get(activity, "date", None)
        IN  /\ Truthy(activity_date)
            /\ ~(Truthy(start_date) /\ StrRank(activity_date) < StrRank(start_date))
            /\ ~(Truthy(end_date) /\ StrRank(activity_date) > StrRank(end_date))
  IN  SortByDate(Filtered(self.activities,
                          {i \in 1..Len(self.activities) : in_range(self.activities[i])}))

\* search_by_exercise(exercise_name): None.lower() is an AttributeError
search_by_exercise(self, exercise_name) ==
  LET n == Len(self.activities)
      matches(activity) == Lower(Get(activity, "exercise", "")) = Lower(exercise_name)
  IN  IF \E i \in 1..n : Get(self.activities[i], "exercise", "") = None
      THEN [raised |-> TRUE, ret |-> None]
      ELSE SortByDate(Filtered(self.activities,
                               {i \in 1..n : matches(self.activities[i])}))

\* get_statistics(): exercise_breakdown is the counting dict as (exercise, count)
\* pairs in first-occurrence order; max() keeps the first of equal counts
get_statistics(self) ==
  IF self.activities = <<>>
  THEN [total_workouts |-> 0, total_exercises |-> 0, most_frequent_exercise |-> None]
  ELSE
    LET n == Len(self.activities)
        ex(i) == Get(self.activities[i], "exercise", None)
        named == Keep([i \in 1..n |-> i], {i \in 1..n : Truthy(ex(i))})
        count(e) == Cardinality({i \in 1..n : ex(i) = e})
        firsts == {i \in 1..n : Truthy(ex(i)) /\ \A j \in 1..(i - 1) : ex(j) # ex(i)}
        order == Keep(named, firsts)
        exercise_counts == [k \in 1..Len(order) |-> <<ex(order[k]), count(ex(order[k]))>>]
        best == IF order = <<>> THEN 0
                ELSE CHOOSE k \in 1..Len(order) :
                       /\ \A m \in 1..Len(order) : exercise_counts[m][2] <= exercise_counts[k][2]
                       /\ \A m \in 1..(k - 1) : exercise_counts[m][2] < exercise_counts[k][2]
        dated == {i \in 1..n : Truthy(Get(self.activities[i], "date", None))}
    IN  [total_workouts |-> n,
         total_exercises |-> Cardinality({ex(i) : i \in {j \in 1..n : Truthy(ex(j))}}),
         most_frequent_exercise |-> IF best = 0 THEN None ELSE exercise_counts[best][1],
         last_workout_date |->
           IF dated = {} THEN None
           ELSE LET i == CHOOSE i \in dated :
                           \A j \in dated : StrRank(self.activities[j].date)
                                              <= StrRank(self.activities[i].date)
                IN  self.activities[i].date,
         exercise_breakdown |-> exercise_counts]

\* ------------------------------------------------------ api/routes/*.py
\* the two routes modules; each has its own _gemini_service, _embedding_service
\* and _memory_service globals
Modules == {"activities", "queries"}

\* the globals of one routes module before the first request (all None)
NoServices ==
  [gemini |-> FALSE, embedding |-> FALSE, memory |-> FALSE,
   activities |-> <<>>, embeddings |-> <<>>]

\* get_services() of one routes module: builds whichever singleton is still
\* None, in order.  GeminiService() (it reads settings.gemini_base_url and the
\* API key) and EmbeddingService() (it loads the model) fail or succeed with the
\* deployment; a constructor that raises leaves the later globals unset.
get_services(svc, gemini_ok, embedding_ok) ==
  IF ~svc.gemini /\ ~gemini_ok THEN [raised |-> TRUE, svc |-> svc]
  ELSE IF ~svc.embedding /\ ~embedding_ok
       THEN [raised |-> TRUE, svc |-> [svc EXCEPT !.gemini = TRUE]]
       ELSE [raised |-> FALSE,
             svc |-> [svc EXCEPT !.gemini = TRUE, !.embedding = TRUE, !.memory = TRUE]]

\* datetime.now().strftime("%Y-%m-%d") in extract_activity
Today == "2026-01-15"

\* what the language model answers to an extraction prompt: an API error, text
\* that is not JSON, or a JSON object
LlmReplies ==
  { [kind |-> "error"], [kind |-> "text"],
    [kind |-> "json", data |-> [exercise |-> "squat", date |-> "2026-01-14"]],
    [kind |-> "json", data |-> [exercise |-> "Squat", date |-> None]],
    [kind |-> "json", data |-> [exercise |-> None, date |-> "2026-01-14"]] }

\* request.message of a log request
Messages == {"did squats"}

\* GeminiService.extract_activity(message)
extract_activity(message, reply) ==
  IF reply.kind = "error" THEN [raised |-> TRUE, ret |-> None]
  ELSE IF reply.kind = "text"
       THEN [raised |-> FALSE,
             ret |-> [exercise |-> "unknown", notes |-> message, date |-> Today]]
       ELSE [raised |-> FALSE,
             ret |-> IF Truthy(Get(reply.data, "date", None)) THEN reply.data
                     ELSE [k \in DOMAIN reply.data \cup {"date"} |->
                             IF k = "date" THEN Today ELSE reply.data[k]]]

\* ParsedActivity(**parsed_data): exercise is a required str; the other fields
\* in use are optional or a parseable date
ParsedActivityValid(parsed_data) ==
  "exercise" \in DOMAIN parsed_data /\ parsed_data.exercise # None

\* ActivityResult(...) of one search hit
ActivityResult(act) ==
  [exercise |-> Get(act, "exercise", "Unknown"), sets |-> Get(act, "sets", None),
   reps |-> Get(act, "reps", None), weight |-> Get(act, "weight", None),
   unit |-> Get(act, "unit", None), duration |-> Get(act, "duration", None),
   notes |-> Get(act, "notes", None)]

\* search_activities, lines 70-106: group the hits by date in first-seen order,
\* one MemoryQueryResult per group, sorted by date descending.  A None exercise
\* fails ActivityResult validation and a None or empty date fails fromisoformat.
\* Dated groups are at midnight of their date and the "Unknown" group is dated
\* datetime.now(): after midnight of Today, before every later date.
group_results(results) ==
  LET n == Len(results)
      key(i) == Get(results[i], "date", "Unknown")
      firsts == {i \in 1..n : \A j \in 1..(i - 1) : key(j) # key(i)}
      order == Keep([i \in 1..n |-> i], firsts)
      members(k) == Keep([i \in 1..n |-> i], {i \in 1..n : key(i) = key(order[k])})
      top(k) == CHOOSE x \in {results[i].similarity_score : i \in {members(k)[m] : m \in 1..Len(members(k))}} :
                  \A i \in {members(k)[m] : m \in 1..Len(members(k))} : results[i].similarity_score <= x
      when(k) == IF key(order[k]) = "Unknown" THEN 2 * StrRank(Today) + 1
                 ELSE 2 * StrRank(key(order[k]))
      groups == [k \in 1..Len(order) |->
                   [date |-> key(order[k]),
                    activities |-> [m \in 1..Len(members(k)) |->
                                      ActivityResult(results[members(k)[m]])],
                    similarity_score |-> top(k)]]
  IN  IF \E i \in 1..n : \/ Get(results[i], "exercise", "Unknown") = None
                         \/ key(i) = None \/ key(i) = ""
      THEN [raised |-> TRUE, ret |-> None]
      ELSE [raised |-> FALSE,
            ret |-> Pick(groups, SortedDesc([k \in 1..Len(order) |-> when(k)], Len(order)))]

\* limit query parameters of /activities/all
RouteLimits == {1, 50}
\* MemoryQueryRequest.limit (1..50) values in use
RequestLimits == {1, 50}
\* exercise names and date bounds of the filter routes
ExerciseNames == {"squat", "unknown"}
DateBounds == {None, "2026-01-14"}

\* threads calling into one MemoryService instance
Threads == {"t1", "t2"}
\* the locals of a thread that is not inside store_activity
NoLocals == [activity |-> <<>>, embedding |-> <<>>]
\* the dictionaries the threads store (none carries an "id" key)
ThreadData == {d \in ActivityData : "id" \notin DOMAIN d}

\* ------------------------------------------------------------ behaviour
\* MemoryService.__init__: both lists empty
Init ==
  /\ activities = <<>>
  /\ embeddings = <<>>
  /\ next_uuid = 1
  /\ now = 1
  /\ returned = {}
  /\ last = [op |-> "init"]
  /\ services = [m \in Modules |-> NoServices]
  /\ logged = {}
  /\ pc = [t \in Threads |-> "idle"]
  /\ local = [t \in Threads |-> NoLocals]

\* A caller invokes store_activity(activity_data).  uuid4 and the clock are only
\* observable through stored records, so the draw and the clock reading of a
\* call that raises are not counted: a later call still gets a fresh id and a
\* later time.
StoreActivity ==
  /\ Len(activities) < MaxStore
  /\ \E activity_data \in ActivityData, embed_ok \in BOOLEAN :
       LET r == store_activity(Self, activity_data, next_uuid, now, embed_ok)
       IN  /\ activities' = r.activities
           /\ embeddings' = r.embeddings
           /\ next_uuid' = IF r.raised THEN next_uuid ELSE next_uuid + 1
           /\ now' = IF r.raised THEN now ELSE now + 1
           /\ returned' = IF r.raised THEN returned ELSE returned \cup {r.ret}
           /\ last' = [op |-> "store_activity", activity_data |-> activity_data,
                       embed_ok |-> embed_ok, raised |-> r.raised, ret |-> r.ret]
  /\ UNCHANGED <<services, logged, pc, local>>

\* a caller invokes search_similar(query, top_k, similarity_threshold)
SearchSimilar ==
  /\ \E query \in Queries, top_k \in TopKs, thr \in Thresholds, embed_ok \in BOOLEAN :
       LET r == search_similar(Self, query, top_k, thr, embed_ok)
       IN  /\ activities' = r.activities
           /\ last' = IF r.raised
                      THEN [op |-> "search_similar", embed_ok |-> embed_ok, raised |-> TRUE]
                      ELSE [op |-> "search_similar", query |-> query, top_k |-> top_k,
                            similarity_threshold |-> thr, embed_ok |-> embed_ok,
                            raised |-> FALSE, ret |-> r.ret, idxs |-> r.idxs]
  /\ UNCHANGED <<embeddings, next_uuid, now, returned, services, logged, pc, local>>

Next == StoreActivity \/ SearchSimilar

Spec == Init /\ [][Next]_vars

\* ------------------------------------- the read methods on a filled store
\* activity_data dictionaries as they reach store_activity from callers that
\* pass optional fields as null or leave them out: a date that is present,
\* missing or None, an exercise in either casing or None
RecordData ==
  { [exercise |-> "squat", date |-> "2026-01-14"],
    [exercise |-> "Squat", date |-> "2026-01-15"],
    [exercise |-> "squat"],
    [exercise |-> None, date |-> "2026-01-10"],
    [exercise |-> "squat", date |-> None] }

\* limit arguments of get_all_activities (the method accepts any int)
Limits == {-1, 0, 1, 5}
\* similarity_threshold when the caller leaves it out (0.5), in hundredths
DefaultThreshold == 50
\* start_date / end_date arguments of search_by_date_range
RangeBounds == {None, "2026-01-14", "2026-01-15"}

\* no read method touches the call counters or anything outside the instance
ReadFrame == UNCHANGED <<next_uuid, now, returned, services, logged, pc, local>>

\* a caller invokes store_activity(activity_data) with a dictionary of RecordData
StoreRecord ==
  /\ Len(activities) < MaxStore
  /\ \E activity_data \in RecordData, embed_ok \in BOOLEAN :
       LET r == store_activity(Self, activity_data, next_uuid, now, embed_ok)
       IN  /\ activities' = r.activities
           /\ embeddings' = r.embeddings
           /\ next_uuid' = IF r.raised THEN next_uuid ELSE next_uuid + 1
           /\ now' = IF r.raised THEN now ELSE now + 1
           /\ returned' = IF r.raised THEN returned ELSE returned \cup {r.ret}
           /\ last' = IF r.raised
                      THEN [op |-> "store_activity", embed_ok |-> embed_ok, raised |-> TRUE]
                      ELSE [op |-> "store_activity", activity_data |-> activity_data,
                            embed_ok |-> embed_ok, raised |-> FALSE, ret |-> r.ret]
  /\ UNCHANGED <<services, logged, pc, local>>

\* a caller invokes get_all_activities(limit); sorted() builds a new list and
\* leaves self.activities as it is
GetAllActivities ==
  /\ \E limit \in Limits :
       last' = [op |-> "get_all_activities", limit |-> limit, raised |-> FALSE,
                ret |-> get_all_activities(Self, limit)]
  /\ UNCHANGED <<activities, embeddings>>
  /\ ReadFrame

\* a caller invokes search_by_exercise(exercise_name); the method sorts its own
\* results list
SearchByExercise ==
  /\ \E exercise_name \in ExerciseNames :
       LET r == search_by_exercise(Self, exercise_name)
       IN  last' = [op |-> "search_by_exercise", exercise_name |-> exercise_name,
                    raised |-> r.raised, ret |-> r.ret]
  /\ UNCHANGED <<activities, embeddings>>
  /\ ReadFrame

\* a caller invokes search_by_date_range(start_date, end_date); the method
\* sorts its own results list
SearchByDateRange ==
  /\ \E start_date \in RangeBounds, end_date \in RangeBounds :
       LET r == search_by_date_range(Self, start_date, end_date)
       IN  last' = [op |-> "search_by_date_range", start_date |-> start_date,
                    end_date |-> end_date, raised |-> r.raised, ret |-> r.ret]
  /\ UNCHANGED <<activities, embeddings>>
  /\ ReadFrame

\* a caller invokes get_statistics()
GetStatistics ==
  /\ last' = [op |-> "get_statistics", raised |-> FALSE, ret |-> get_statistics(Self)]
  /\ UNCHANGED <<activities, embeddings>>
  /\ ReadFrame

\* search_similar on the filled store, and the grouping of search_activities
\* (queries.py lines 70-106) applied to what it returned
SearchGrouped ==
  /\ \E query \in Queries, top_k \in RequestLimits :
       LET r == search_similar(Self, query, top_k, DefaultThreshold, TRUE)
       IN  /\ activities' = r.activities
           /\ last' = [op |-> "search_similar", query |-> query, top_k |-> top_k,
                       similarity_threshold |-> DefaultThreshold, raised |-> r.raised,
                       ret |-> r.ret, idxs |-> r.idxs,
                       grouped |-> IF r.raised THEN [raised |-> TRUE, ret |-> None]
                                   ELSE group_results(r.ret)]
  /\ UNCHANGED embeddings
  /\ ReadFrame

NextReads ==
  \/ StoreRecord
  \/ GetAllActivities
  \/ SearchByExercise
  \/ SearchByDateRange
  \/ GetStatistics
  \/ SearchGrouped

SpecReads == Init /\ [][NextReads]_vars

\* ------------------------------------------------------- the HTTP routes
\* the MemoryService behind a routes module
ServiceOf(svc) == [activities |-> svc.activities, embeddings |-> svc.embeddings]

\* no route touches the instance driven by direct calls
RouteFrame == UNCHANGED <<activities, embeddings, pc, local>>

\* a route whose get_services() raised answers 500
Route500(route, m, g) ==
  /\ services' = [services EXCEPT ![m] = g.svc]
  /\ last' = [op |-> route, status |-> 500]
  /\ UNCHANGED <<next_uuid, now, returned, logged>>

\* POST /activities/log
log_activity ==
  /\ Len(services["activities"].activities) < MaxStore
  /\ \E message \in Messages, reply \in LlmReplies,
        gemini_ok \in BOOLEAN, embedding_ok \in BOOLEAN, embed_ok \in BOOLEAN :
       LET g == get_services(services["activities"], gemini_ok, embedding_ok)
           parsed_data == extract_activity(message, reply)
           r == store_activity(ServiceOf(g.svc), parsed_data.ret, next_uuid, now, embed_ok)
       IN  IF g.raised THEN Route500("log_activity", "activities", g)
           ELSE IF parsed_data.raised
           THEN /\ services' = [services EXCEPT !["activities"] = g.svc]
                /\ last' = [op |-> "log_activity", status |-> 500]
                /\ UNCHANGED <<next_uuid, now, returned, logged>>
           ELSE /\ services' = [services EXCEPT !["activities"] =
                                  [g.svc EXCEPT !.activities = r.activities,
                                                !.embeddings = r.embeddings]]
                /\ next_uuid' = IF r.raised THEN next_uuid ELSE next_uuid + 1
                /\ now' = IF r.raised THEN now ELSE now + 1
                /\ returned' = IF r.raised THEN returned ELSE returned \cup {r.ret}
                /\ logged' = IF r.raised THEN logged
                             ELSE logged \cup {r.activities[Len(r.activities)]}
                /\ last' = IF r.raised \/ ~ParsedActivityValid(parsed_data.ret)
                           THEN [op |-> "log_activity", status |-> 500]
                           ELSE [op |-> "log_activity", status |-> 200,
                                 activity_id |-> r.ret, parsed_data |-> parsed_data.ret]
  /\ RouteFrame

\* the answer of a read route: g is the outcome of get_services() of its
\* module, r that of the MemoryService method called on the module's instance
ReadRoute(route, m, args, g, r) ==
  IF g.raised THEN Route500(route, m, g)
  ELSE /\ services' = [services EXCEPT ![m] = g.svc]
       /\ last' = IF r.raised THEN [op |-> route, status |-> 500]
                  ELSE [op |-> route, status |-> 200, args |-> args, body |-> r.ret]
       /\ UNCHANGED <<next_uuid, now, returned, logged>>

\* GET /activities/all
get_all_activities_route ==
  /\ \E limit \in RouteLimits, gemini_ok \in BOOLEAN, embedding_ok \in BOOLEAN :
       LET g == get_services(services["activities"], gemini_ok, embedding_ok)
           r == [raised |-> FALSE, ret |-> get_all_activities(ServiceOf(g.svc), limit)]
       IN  ReadRoute("get_all_activities", "activities", <<limit>>, g, r)
  /\ RouteFrame

\* GET /activities/stats
get_statistics_route ==
  /\ \E gemini_ok \in BOOLEAN, embedding_ok \in BOOLEAN :
       LET g == get_services(services["activities"], gemini_ok, embedding_ok)
           r == [raised |-> FALSE, ret |-> get_statistics(ServiceOf(g.svc))]
       IN  ReadRoute("get_statistics", "activities", <<>>, g, r)
  /\ RouteFrame

\* POST /queries/search: process_query yields the semantic query (it falls back
\* to the request's query when the language model fails)
search_activities ==
  /\ \E query \in Queries, limit \in RequestLimits, thr \in Thresholds,
        embed_ok \in BOOLEAN, gemini_ok \in BOOLEAN, embedding_ok \in BOOLEAN :
       LET g == get_services(services["queries"], gemini_ok, embedding_ok)
           results == search_similar(ServiceOf(g.svc), query, limit, thr, embed_ok)
           r == IF results.raised THEN [raised |-> TRUE, ret |-> None]
                ELSE LET grouped == group_results(results.ret)
                     IN  IF grouped.raised THEN [raised |-> TRUE, ret |-> None]
                         ELSE [raised |-> FALSE,
                               ret |-> [query |-> query, results |-> grouped.ret,
                                        total_results |-> Len(results.ret)]]
       IN  ReadRoute("search_activities", "queries", <<query, limit, thr>>, g, r)
  /\ RouteFrame

\* GET /queries/by-exercise/{exercise_name}
search_by_exercise_route ==
  /\ \E exercise_name \in ExerciseNames, gemini_ok \in BOOLEAN, embedding_ok \in BOOLEAN :
       LET g == get_services(services["queries"], gemini_ok, embedding_ok)
           r == search_by_exercise(ServiceOf(g.svc), exercise_name)
       IN  ReadRoute("search_by_exercise", "queries", <<exercise_name>>, g, r)
  /\ RouteFrame

\* GET /queries/by-date
search_by_date ==
  /\ \E start_date \in DateBounds, end_date \in DateBounds,
        gemini_ok \in BOOLEAN, embedding_ok \in BOOLEAN :
       LET g == get_services(services["queries"], gemini_ok, embedding_ok)
           r == search_by_date_range(ServiceOf(g.svc), start_date, end_date)
       IN  ReadRoute("search_by_date", "queries", <<start_date, end_date>>, g, r)
  /\ RouteFrame

NextRoutes ==
  \/ log_activity
  \/ get_all_activities_route
  \/ get_statistics_route
  \/ search_activities
  \/ search_by_exercise_route
  \/ search_by_date

SpecRoutes == Init /\ [][NextRoutes]_vars

\* ------------------------------------------- threads on one MemoryService
\* store_activity takes no lock, so between any two of its statements another
\* thread may run.  Each statement is one step; the read methods are taken as
\* one step each (fewer interleavings than the interpreter allows).
ThreadFrame == UNCHANGED <<services, logged>>

\* lines 48-55: draw the id, stamp the time, build the activity
BeginStore(t) ==
  /\ pc[t] = "idle"
  /\ next_uuid <= MaxStore
  /\ \E activity_data \in ThreadData :
       local' = [local EXCEPT ![t] =
                   [activity |-> NewActivity(next_uuid, now, activity_data),
                    embedding |-> <<>>]]
  /\ next_uuid' = next_uuid + 1
  /\ now' = now + 1
  /\ pc' = [pc EXCEPT ![t] = "embed"]
  /\ UNCHANGED <<activities, embeddings, returned, last>>
  /\ ThreadFrame

\* line 58: generate_embedding; on failure lines 67-69 re-raise
Embed(t) ==
  /\ pc[t] = "embed"
  /\ \E embed_ok \in BOOLEAN :
       LET embedding == generate_embedding(local[t].activity, embed_ok)
       IN  IF embedding.raised
           THEN /\ pc' = [pc EXCEPT ![t] = "idle"]
                /\ local' = [local EXCEPT ![t] = NoLocals]
           ELSE /\ pc' = [pc EXCEPT ![t] = "append_activity"]
                /\ local' = [local EXCEPT ![t].embedding = embedding.ret]
  /\ UNCHANGED <<activities, embeddings, next_uuid, now, returned, last>>
  /\ ThreadFrame

\* line 61: self.activities.append(activity)
AppendActivity(t) ==
  /\ pc[t] = "append_activity"
  /\ activities' = Append(activities, local[t].activity)
  /\ pc' = [pc EXCEPT ![t] = "append_embedding"]
  /\ UNCHANGED <<embeddings, next_uuid, now, returned, last, local>>
  /\ ThreadFrame

\* lines 62-65: self.embeddings.append(embedding); return activity_id
AppendEmbedding(t) ==
  /\ pc[t] = "append_embedding"
  /\ embeddings' = Append(embeddings, local[t].embedding)
  /\ returned' = returned \cup {local[t].activity.id}
  /\ pc' = [pc EXCEPT ![t] = "idle"]
  /\ local' = [local EXCEPT ![t] = NoLocals]
  /\ UNCHANGED <<activities, next_uuid, now, last>>
  /\ ThreadFrame

\* a read returns to its caller: seen are the store positions of the records it
\* returned (or counted)
Observe(op, r, seen) ==
  /\ last' = [op |-> op, raised |-> r.raised, ret |-> r.ret, seen |-> seen]
  /\ UNCHANGED <<activities, embeddings, next_uuid, now, returned, pc, local>>

\* positions of the store holding one of the given records
Where(records) == {i \in 1..Len(activities) : activities[i] \in Elems(records)}

ReadAll ==
  /\ LET ret == get_all_activities(Self, MaxStore)
     IN  Observe("get_all_activities", [raised |-> FALSE, ret |-> ret], Where(ret))
  /\ ThreadFrame

ReadSearch ==
  /\ \E query \in Queries :
       LET r == search_similar(Self, query, MaxStore, 0, TRUE)
       IN  Observe("search_similar", r, Elems(r.idxs))
  /\ ThreadFrame

ReadByExercise ==
  /\ \E exercise_name \in ExerciseNames :
       LET r == search_by_exercise(Self, exercise_name)
       IN  Observe("search_by_exercise", r, IF r.raised THEN {} ELSE Where(r.ret))
  /\ ThreadFrame

ReadByDate ==
  /\ LET r == search_by_date_range(Self, None, None)
     IN  Observe("search_by_date_range", r, IF r.raised THEN {} ELSE Where(r.ret))
  /\ ThreadFrame

ReadStatistics ==
  /\ LET ret == get_statistics(Self)
     IN  Observe("get_statistics", [raised |-> FALSE, ret |-> ret],
                 1..ret.total_workouts)
  /\ ThreadFrame

NextThreads ==
  \/ \E t \in Threads : BeginStore(t)
  \/ \E t \in Threads : Embed(t)
  \/ \E t \in Threads : AppendActivity(t)
  \/ \E t \in Threads : AppendEmbedding(t)
  \/ ReadAll
  \/ ReadSearch
  \/ ReadByExercise
  \/ ReadByDate
  \/ ReadStatistics

SpecThreads == Init /\ [][NextThreads]_vars

\* ---------------------------------------------------------------- claims
\* similarity of record idx to the query of the last search
ScoreOf(idx) == cosine_similarity(encode(<<<<last.query>>>>), embeddings[idx])

\* 1-based position of record idx in the score-descending ranking, ties by
\* insertion order
RankOf(idx) ==
  1 + Cardinality({j \in 1..Len(embeddings) :
                     \/ ScoreOf(j) > ScoreOf(idx)
                     \/ (ScoreOf(j) = ScoreOf(idx) /\ j < idx)})

SearchReturned == last.op = "search_similar" /\ ~last.raised

\* C1: in every state reached by sequential store_activity calls, successful or
\* failed, the record list and the vector list have the same length and the
\* vector at position i is the embedding of the record at position i.
C1_Paired ==
  /\ Len(activities) = Len(embeddings)
  /\ \A i \in 1..Len(activities) :
       embeddings[i] = encode(create_activity_text(activities[i]))

\* C1 witness: two records with different vectors are stored and the last call
\* was a store_activity that failed.
C1_Witness ==
  /\ Len(activities) >= 2
  /\ embeddings[1] # embeddings[2]
  /\ last.op = "store_activity" /\ last.raised

\* C3 (as claimed): stored ids are pairwise distinct and each is an id the store
\* generated and returned.
C3_IdsUniqueGenerated ==
  /\ \A i, j \in 1..Len(activities) : i # j => activities[i].id # activities[j].id
  /\ \A i \in 1..Len(activities) : activities[i].id \in returned

\* C4 (as claimed): a successful store_activity returns an id never returned
\* before, and get_all_activities with a limit of the stored count then holds a
\* record with that id, the store's created_at and the fields passed in.
C4_InsertRead ==
  [][(last'.op = "store_activity" /\ ~last'.raised /\ activities' # activities)
       => /\ last'.ret \notin returned
          /\ LET all == get_all_activities(
                          [activities |-> activities', embeddings |-> embeddings'],
                          Len(activities'))
                 r == last'.activity_data
             IN  \E i \in 1..Len(all) :
                   /\ all[i].id = last'.ret
                   /\ all[i].created_at = now
                   /\ \A k \in DOMAIN r \ {"id", "created_at"} : all[i][k] = r[k]]_vars

\* C5: when the embedder fails inside store_activity the call raises and neither
\* list changes.
C5_EmbedFailure ==
  [][(last'.op = "store_activity" /\ ~last'.embed_ok)
       => (last'.raised /\ activities' = activities /\ embeddings' = embeddings)]_vars

\* C5 witness: a store_activity whose embedder failed has raised on a non-empty
\* store.
C5_Witness ==
  /\ last.op = "store_activity" /\ ~last.embed_ok /\ last.raised
  /\ Len(activities) >= 1

\* C8 (as claimed): the result is exactly the records ranked within the first
\* top_k positions whose score reaches the threshold, in rank order.
C8_TruncateThenThreshold ==
  SearchReturned =>
    /\ \A idx \in 1..Len(embeddings) :
         (\E i \in 1..Len(last.idxs) : last.idxs[i] = idx)
           <=> (RankOf(idx) <= last.top_k /\ ScoreOf(idx) >= last.similarity_threshold)
    /\ \A i, j \in 1..Len(last.idxs) :
         i < j => RankOf(last.idxs[i]) < RankOf(last.idxs[j])

\* C9: a search result is in score-descending order, entries of equal score in
\* insertion order, and each entry is the stored record with its own score.
C9_Ordered ==
  SearchReturned =>
    /\ Len(last.ret) = Len(last.idxs)
    /\ \A i \in 1..Len(last.ret) :
         /\ last.idxs[i] \in 1..Len(activities)
         /\ last.ret[i] = WithScore(activities[last.idxs[i]], ScoreOf(last.idxs[i]))
    /\ \A i, j \in 1..Len(last.ret) :
         i < j =>
           /\ last.ret[i].similarity_score >= last.ret[j].similarity_score
           /\ last.ret[i].similarity_score = last.ret[j].similarity_score
                => last.idxs[i] < last.idxs[j]

\* C9 witness: a result of at least three entries holding two of equal score and
\* one of a different score.
C9_Witness ==
  /\ SearchReturned
  /\ Len(last.ret) >= 3
  /\ \E i, j, k \in 1..Len(last.ret) :
       /\ i # j
       /\ last.ret[i].similarity_score = last.ret[j].similarity_score
       /\ last.ret[k].similarity_score # last.ret[i].similarity_score

\* C10 (as claimed): on an empty store search_similar returns an empty sequence
\* without error, and with top_k <= 0 it returns an empty sequence on any store.
C10_EmptyResults ==
  last.op = "search_similar" =>
    /\ activities = <<>> => (~last.raised /\ last.ret = <<>>)
    /\ (~last.raised /\ last.top_k <= 0) => last.ret = <<>>

\* C2 (as claimed): every read answered after a log-activity insert returned
\* observes the inserted record, on every read route: all-activities (limit
\* covering the store), statistics, by-date without bounds, by-exercise for the
\* record's exercise, and semantic search (limit covering the store, every
\* record scoring at least the threshold).
C2_InsertVisible ==
  (last.op # "init" /\ last.op # "store_activity" /\ last.op # "search_similar"
     /\ last.op # "log_activity" /\ last.status = 200) =>
    /\ (last.op = "get_all_activities" /\ last.args[1] >= Cardinality(logged))
         => logged \subseteq Elems(last.body)
    /\ last.op = "get_statistics" => last.body.total_workouts = Cardinality(logged)
    /\ (last.op = "search_by_date" /\ last.args = <<None, None>>)
         => logged \subseteq Elems(last.body)
    /\ last.op = "search_by_exercise"
         => \A a \in logged :
              (a.exercise # None /\ Lower(a.exercise) = Lower(last.args[1]))
                => a \in Elems(last.body)
    /\ (last.op = "search_activities" /\ last.args[2] >= Cardinality(logged))
         => last.body.total_results >=
              Cardinality({a \in logged :
                 cosine_similarity(encode(<<<<last.args[1]>>>>),
                                   encode(create_activity_text(a))) >= last.args[3]})

\* C6 (as claimed): when every concurrent store_activity call has finished,
\* each record is paired with its own vector and no id is duplicated.
C6_ConcurrentInserts ==
  (\A t \in Threads : pc[t] = "idle") =>
    /\ Len(activities) = Len(embeddings)
    /\ \A i \in 1..Len(activities) :
         embeddings[i] = encode(create_activity_text(activities[i]))
    /\ \A i, j \in 1..Len(activities) : i # j => activities[i].id # activities[j].id

\* C7 (as claimed): a read running while store_activity calls are in progress
\* only sees records whose own vector is stored at the same position.
C7_NoTornRead ==
  (last.op # "init" /\ ~last.raised) =>
    \A i \in last.seen :
      /\ i <= Len(embeddings)
      /\ embeddings[i] = encode(create_activity_text(activities[i]))

\* C11 (as claimed): get_all_activities(limit) returns the stored records in
\* created_at-descending order cut to limit: nothing for every limit <= 0, all
\* records for a limit above the stored count.
C11_AllRecords ==
  last.op = "get_all_activities" =>
    LET n == Len(activities)
        want == IF last.limit <= 0 THEN 0 ELSE IF last.limit > n THEN n ELSE last.limit
    IN  /\ Len(last.ret) = want
        /\ Elems(last.ret) \subseteq Elems(activities)
        /\ \A i, j \in 1..Len(last.ret) :
             i < j => last.ret[i].created_at > last.ret[j].created_at
        /\ \A i \in 1..Len(last.ret), k \in 1..n :
             activities[k] \notin Elems(last.ret)
               => activities[k].created_at < last.ret[i].created_at

\* whether a record has a value (neither missing nor None) under key k
Has(activity, k) == k \in DOMAIN activity /\ activity[k] # None

\* rank of a record's date for date-descending order: a record lacking a date
\* ranks below every dated one
DateRank(activity) == IF Has(activity, "date") THEN StrRank(activity.date) ELSE 0

\* C12 (as claimed): for any store contents, records with a missing or None
\* exercise or date included, search_by_exercise(name) returns exactly the
\* records whose exercise equals name ignoring case, in date-descending order
\* with the records lacking a date last.
C12_ByExercise ==
  last.op = "search_by_exercise" =>
    /\ ~last.raised
    /\ LET want == {i \in 1..Len(activities) :
                      /\ Has(activities[i], "exercise")
                      /\ Lower(activities[i].exercise) = Lower(last.exercise_name)}
       IN  /\ Len(last.ret) = Cardinality(want)
           /\ Elems(last.ret) = {activities[i] : i \in want}
    /\ \A i, j \in 1..Len(last.ret) :
         i < j => DateRank(last.ret[i]) >= DateRank(last.ret[j])

\* C13: search_by_date_range(start, end) returns exactly the stored records
\* that have a date d with (start absent or start <= d) and (end absent or
\* d <= end); records lacking a date are left out whatever the bounds; the
\* result is in date-descending order.
C13_ByDateRange ==
  last.op = "search_by_date_range" =>
    /\ ~last.raised
    /\ LET want == {i \in 1..Len(activities) :
                      /\ Has(activities[i], "date")
                      /\ \/ last.start_date = None
                         \/ StrRank(last.start_date) <= StrRank(activities[i].date)
                      /\ \/ last.end_date = None
                         \/ StrRank(activities[i].date) <= StrRank(last.end_date)}
       IN  /\ Len(last.ret) = Cardinality(want)
           /\ Elems(last.ret) = {activities[i] : i \in want}
    /\ \A i \in 1..Len(last.ret) : Has(last.ret[i], "date")
    /\ \A i, j \in 1..Len(last.ret) :
         i < j => StrRank(last.ret[i].date) >= StrRank(last.ret[j].date)

\* C13 witness: a call with both bounds given returned a record dated on the
\* upper bound ahead of an earlier-stored record dated on the lower bound,
\* leaving out a stored record without a date.
C13_Witness ==
  /\ last.op = "search_by_date_range" /\ ~last.raised
  /\ last.start_date = "2026-01-14" /\ last.end_date = "2026-01-15"
  /\ Len(last.ret) = 2
  /\ last.ret[1].date = "2026-01-15" /\ last.ret[2].date = "2026-01-14"
  /\ last.ret[2].created_at < last.ret[1].created_at
  /\ \E i \in 1..Len(activities) : ~Has(activities[i], "date")

\* sum of the counts of an exercise_breakdown
RECURSIVE SumCounts(_)
SumCounts(pairs) ==
  IF pairs = <<>> THEN 0 ELSE Head(pairs)[2] + SumCounts(Tail(pairs))

\* C14 (as claimed): get_statistics returns the record count, the number of
\* distinct exercises counted without regard to case, the most frequent
\* exercise (of equally frequent ones the one first inserted), the latest date,
\* and per-exercise counts that add up to the number of records having an
\* exercise; on an empty store total 0, distinct 0 and no most-frequent exercise.
C14_Statistics ==
  last.op = "get_statistics" =>
    LET n == Len(activities)
        stats == last.ret
        named == {i \in 1..n : Has(activities[i], "exercise")}
        norm(i) == Lower(activities[i].exercise)
        count(e) == Cardinality({i \in named : norm(i) = e})
        first(e) == CHOOSE i \in named : norm(i) = e /\ \A j \in named : norm(j) = e => i <= j
        dated == {i \in 1..n : Has(activities[i], "date")}
    IN  /\ ~last.raised
        /\ stats.total_workouts = n
        /\ stats.total_exercises = Cardinality({norm(i) : i \in named})
        /\ named = {} => stats.most_frequent_exercise = None
        /\ named # {} =>
             LET e == Lower(stats.most_frequent_exercise)
             IN  /\ e \in {norm(i) : i \in named}
                 /\ \A i \in named :
                      \/ count(norm(i)) < count(e)
                      \/ count(norm(i)) = count(e) /\ first(e) <= first(norm(i))
        /\ n > 0 =>
             /\ SumCounts(stats.exercise_breakdown) = Cardinality(named)
             /\ dated = {} => stats.last_workout_date = None
             /\ dated # {} =>
                  /\ stats.last_workout_date \in {activities[i].date : i \in dated}
                  /\ \A i \in dated :
                       StrRank(activities[i].date) <= StrRank(stats.last_workout_date)

\* C15 (as claimed): every stored record that has an exercise holds it in
\* lower-case form, whatever casing was passed to store_activity.
C15_ExerciseNormalized ==
  \A i \in 1..Len(activities) :
    Has(activities[i], "exercise")
      => activities[i].exercise = Lower(activities[i].exercise)

\* the bucket key of a result record: its date, or "Unknown" when it has none
BucketOf(result) == IF Has(result, "date") THEN result.date ELSE "Unknown"

\* the instant a bucket is placed at: midnight of its date, or now
BucketTime(date) == IF date = "Unknown" THEN 2 * StrRank(Today) + 1 ELSE 2 * StrRank(date)

\* C16 (as claimed): grouping a search result puts every result record in
\* exactly one bucket keyed by its date, all records without a date in one
\* "Unknown" bucket; a bucket's score is the highest score of its members;
\* buckets are in date-descending order with the "Unknown" bucket placed as if
\* dated now; no result record is lost or duplicated.
C16_Grouping ==
  (last.op = "search_similar" /\ ~last.raised) =>
    /\ ~last.grouped.raised
    /\ LET results == last.ret
           groups == last.grouped.ret
           members(date) == Filtered(results, {i \in 1..Len(results) :
                                                 BucketOf(results[i]) = date})
       IN  /\ {groups[k].date : k \in 1..Len(groups)}
                = {BucketOf(results[i]) : i \in 1..Len(results)}
           /\ \A k, m \in 1..Len(groups) : k # m => groups[k].date # groups[m].date
           /\ \A k \in 1..Len(groups) :
                LET mine == members(groups[k].date)
                IN  /\ groups[k].activities = [i \in 1..Len(mine) |-> ActivityResult(mine[i])]
                    /\ \E i \in 1..Len(mine) :
                         groups[k].similarity_score = mine[i].similarity_score
                    /\ \A i \in 1..Len(mine) :
                         mine[i].similarity_score <= groups[k].similarity_score
           /\ \A k, m \in 1..Len(groups) :
                k < m => BucketTime(groups[k].date) > BucketTime(groups[m].date)

\* the read methods of MemoryService, by the name recorded in last.op
ReadOps ==
  {"search_similar", "search_by_exercise", "search_by_date_range",
   "get_all_activities", "get_statistics"}

\* C17: a successful store_activity adds one record and one vector at the end
\* and leaves every earlier record and vector at its position with the same
\* content; each of the five read methods, returning or raising, leaves both
\* sequences as they were (search_similar puts similarity_score on copies).
C17_AppendOnly ==
  [][/\ (last'.op = "store_activity" /\ ~last'.raised) =>
          /\ Len(activities') = Len(activities) + 1
          /\ Len(embeddings') = Len(embeddings) + 1
          /\ SubSeq(activities', 1, Len(activities)) = activities
          /\ SubSeq(embeddings', 1, Len(embeddings)) = embeddings
     /\ last'.op \in ReadOps =>
          /\ activities' = activities
          /\ embeddings' = embeddings]_vars

\* C17 witness: a search_similar call has returned two scored copies from a
\* store of at least two records, none of which carries a similarity_score.
C17_Witness ==
  /\ last.op = "search_similar" /\ ~last.raised
  /\ Len(last.ret) >= 2
  /\ \A i \in 1..Len(last.ret) : "similarity_score" \in DOMAIN last.ret[i]
  /\ Len(activities) >= 2
  /\ \A i \in 1..Len(activities) : "similarity_score" \notin DOMAIN activities[i]

\* C18 (as claimed): a log-activity request that is answered with an error
\* leaves the store of its routes module unchanged: no record and no vector of
\* that request has been appended.
C18_ErrorLeavesStore ==
  [][(last'.op = "log_activity" /\ last'.status = 500) =>
       /\ services'["activities"].activities = services["activities"].activities
       /\ services'["activities"].embeddings = services["activities"].embeddings]_vars

====
